---------------------------- MODULE Spec2Model ----------------------------
(***************************************************************************)
(* Adverse-media search orchestration: per-language search pagination,     *)
(* per-item text extraction, size-aware batching, classification with      *)
(* fallback scores, and the fan-out/fan-in composition of the language     *)
(* and top orchestrators.                                                  *)
(*                                                                         *)
(* Python dicts are functions from key strings to values; a key that is    *)
(* not set is not in the DOMAIN.  Python's None is None or NoneDict below. *)
(* A text is a sequence of fragments (see FragmentBytes); floats are       *)
(* modelled by integers with the same order.                               *)
(***************************************************************************)
EXTENDS Integers, Sequences, FiniteSets, TLC

VARIABLES
    \* ClassifyBatchingAction.main run on its own
    bt_pc, bt_items, bt_cfg, bt_out,
    \* ClassifyAction.main run on its own
    cl_pc, cl_items, cl_request, cl_response, cl_out, cl_raised,
    \* one run of OrchestrateSearch:
    languages,            \* keys of Config.get_configured_languages()
    selected_languages,   \* input of the run
    depth,                \* input of the run
    classify_batch_size,  \* Config.get_classify_batch_size()
    top_pc,               \* "start", "join", "done" or "failed"
    top_result,           \* what OrchestrateSearch returns
    branch,               \* the OrchestrateLanguageSearch instances, in
                          \* the order of the searches list
    store,                \* the blob container
    \* OrchestrateTextExtraction instances run on their own (they share store)
    pipe

batcherVars == <<bt_pc, bt_items, bt_cfg, bt_out>>
classifyVars == <<cl_pc, cl_items, cl_request, cl_response, cl_out, cl_raised>>
configVars == <<languages, selected_languages, depth, classify_batch_size>>
runVars == <<configVars, top_pc, top_result, branch, store>>
pipeVars == <<pipe>>
vars == <<batcherVars, classifyVars, runVars, pipeVars>>

---------------------------------------------------------------------------
(* Bounds of the model *)

MaxItems == 3          \* longest item list handed to the Batcher on its own
MaxBatchKB == 2        \* largest configured classify_batch_size (KB)
MaxBatch == 2          \* longest batch handed to ClassifyAction on its own
MaxDepth == 2          \* largest depth (result pages per language) of a run

---------------------------------------------------------------------------
(* Values *)

\* Python's None where a str may stand: distinct from every text (no
\* fragment is called "None")
None == <<"None">>

\* Python's None where a dict may stand: distinct from every dict
NoneDict == [none |-> TRUE]

\* the dict {}
EmptyDict == [x \in {} |-> 0]

\* dict[key] = val (adds the key when it is not there)
Put(d, key, val) == [k \in (DOMAIN d) \cup {key} |-> IF k = key THEN val ELSE d[k]]

\* A text fragment and the number of bytes of its UTF-8 encoding:
\*   "a"     one ASCII character
\*   "K"     a run of 1000 ASCII characters
\*   "E"     a run of 1000 two-byte characters (such as the Nordic letters)
\*   "H"     a run of 100,000 ASCII characters
\*   "Q"     a run of 250,000 ASCII characters
\*   " ... " the separator of CreateTextBodyAction
FragmentBytes(f) ==
    CASE f = "a" -> 1
      [] f = "K" -> 1000
      [] f = "E" -> 2000
      [] f = "H" -> 100000
      [] f = "Q" -> 250000
      [] f = " ... " -> 5
      [] OTHER -> 1

RECURSIVE Utf8Len(_)
\* len(text.encode('utf-8'))
Utf8Len(text) ==
    IF text = <<>> THEN 0 ELSE FragmentBytes(Head(text)) + Utf8Len(Tail(text))

RECURSIVE Flatten(_)
\* [x for xs in xss for x in xs]
Flatten(xss) ==
    IF xss = <<>> THEN <<>> ELSE Head(xss) \o Flatten(Tail(xss))

\* All sequences over S of length 0..n
SeqUpTo(S, n) == UNION {[1..k -> S] : k \in 0..n}

---------------------------------------------------------------------------
(* ClassifyBatchingAction *)

\* item['text_body'].encode('utf-8') raises when the key is missing
\* (KeyError) or when the value is not a str (AttributeError on None)
TextBodyRaises(item) ==
    \/ "text_body" \notin DOMAIN item
    \/ item["text_body"] = None

\* Variant: the item that takes the counter over the threshold is moved to
\* the next batch
BatchLoop_overflowMoved(items, i, st, max_batch_size) ==
    LET RECURSIVE Go(_, _)
        Go(j, s) ==
          IF j > Len(items) THEN s
          ELSE IF TextBodyRaises(items[j])
          THEN [s EXCEPT !.raised = TRUE,
                         !.current_batch = Append(s.current_batch, items[j])]
          ELSE
            LET length == s.current_batch_length + Utf8Len(items[j]["text_body"])
            IN  IF length > max_batch_size
                THEN Go(j + 1, [s EXCEPT !.batches = Append(s.batches, s.current_batch),
                                         !.current_batch = <<items[j]>>,
                                         !.current_batch_length = length])
                ELSE Go(j + 1, [s EXCEPT !.current_batch = Append(s.current_batch, items[j]),
                                         !.current_batch_length = length])
    IN Go(i, st)

\* Variant: the threshold test precedes the addition of the item's size
BatchLoop_testBeforeAdd(items, i, st, max_batch_size) ==
    LET RECURSIVE Go(_, _)
        Go(j, s) ==
          IF j > Len(items) THEN s
          ELSE IF TextBodyRaises(items[j])
          THEN [s EXCEPT !.raised = TRUE,
                         !.current_batch = Append(s.current_batch, items[j])]
          ELSE
            LET batch  == Append(s.current_batch, items[j])
                length == s.current_batch_length + Utf8Len(items[j]["text_body"])
            IN  IF s.current_batch_length > max_batch_size
                THEN Go(j + 1, [s EXCEPT !.batches = Append(s.batches, batch),
                                         !.current_batch = <<>>,
                                         !.current_batch_length = length])
                ELSE Go(j + 1, [s EXCEPT !.current_batch = batch,
                                         !.current_batch_length = length])
    IN Go(i, st)

\* One pass of the for loop body (lines 40-44) over items[i..]; st is the
\* loop state.  current_batch_length is not assigned in the close branch.
RECURSIVE BatchLoop(_, _, _, _)
BatchLoop(items, i, st, max_batch_size) ==
    IF i > Len(items) THEN st
    ELSE IF TextBodyRaises(items[i])
    THEN [st EXCEPT !.raised = TRUE,
                    !.current_batch = Append(st.current_batch, items[i])]
    ELSE
      LET batch  == Append(st.current_batch, items[i])
          length == st.current_batch_length + Utf8Len(items[i]["text_body"])
      IN  IF length > max_batch_size
          THEN BatchLoop(items, i + 1,
                         [st EXCEPT !.batches = Append(st.batches, batch),
                                    !.current_batch = <<>>,
                                    !.current_batch_length = length],
                         max_batch_size)
          ELSE BatchLoop(items, i + 1,
                         [st EXCEPT !.current_batch = batch,
                                    !.current_batch_length = length],
                         max_batch_size)

\* lines 34-37
BatchStart == [raised |-> FALSE, current_batch_length |-> 0,
               current_batch |-> <<>>, batches |-> <<>>]

\* max_batch_size = Config.get_batch_kb() * 1000
MaxBatchSize(batch_kb) == batch_kb * 1000

\* Variant: the last unfinished batch is not added
ClassifyBatchingAction_main_noTail(items, batch_kb) ==
    LET st == BatchLoop(items, 1, BatchStart, MaxBatchSize(batch_kb))
    IN  IF st.raised THEN <<items>> ELSE st.batches

\* Variant: on a failure the batches closed so far are kept and the other
\* items follow in one batch
ClassifyBatchingAction_main_keepsClosed(items, batch_kb) ==
    LET st == BatchLoop(items, 1, BatchStart, MaxBatchSize(batch_kb))
        closed == Len(Flatten(st.batches))
    IN  IF st.raised
        THEN Append(st.batches, SubSeq(items, closed + 1, Len(items)))
        ELSE IF Len(st.current_batch) > 0
             THEN Append(st.batches, st.current_batch)
             ELSE st.batches

\* main(items): the batches, or [items] when anything raised
ClassifyBatchingAction_main(items, batch_kb) ==
    LET st == BatchLoop(items, 1, BatchStart, MaxBatchSize(batch_kb))
    IN  IF st.raised THEN <<items>>
        ELSE IF Len(st.current_batch) > 0
             THEN Append(st.batches, st.current_batch)
             ELSE st.batches

---------------------------------------------------------------------------
(* ClassifyAction *)

Min(a, b) == IF a <= b THEN a ELSE b

\* to_classify_snippet(item); raises KeyError when a key is missing
SnippetRaises(item) == ~({"title", "text_body", "link", "date"} \subseteq DOMAIN item)

to_classify_snippet(item) ==
    [title |-> item["title"], snippet |-> item["text_body"],
     url |-> item["link"], date |-> item["date"]]

\* to_scored_item(item, score): the four assignments in order, on the item
\* itself; a missing key of score raises after the assignments before it
to_scored_item(item, score) ==
    IF "score" \notin DOMAIN score THEN [raised |-> TRUE, item |-> item]
    ELSE LET i1 == Put(item, "score", score["score"]) IN
    IF "severity" \notin DOMAIN score THEN [raised |-> TRUE, item |-> i1]
    ELSE LET i2 == Put(i1, "severity", score["severity"]) IN
    IF "error" \notin DOMAIN score THEN [raised |-> TRUE, item |-> i2]
    ELSE LET i3 == Put(i2, "scoring_errors", score["error"]) IN
    IF "title" \notin DOMAIN score THEN [raised |-> TRUE, item |-> i3]
    ELSE [raised |-> FALSE, item |-> Put(i3, "scoring_title", score["title"])]

\* the diagnostic of line 110
ClassificationFailed == <<"Classification call failed">>

\* Variant: the error text is not carried into the score
get_default_score_noError(item, error) ==
    [score |-> 0, severity |-> 0, error |-> <<>>, title |-> item["title"]]

\* get_default_score(item, error); raises KeyError when item has no title
get_default_score(item, error) ==
    [score |-> 0, severity |-> 0, error |-> error, title |-> item["title"]]

\* Variant: the scores are paired with the items from the far end
ApplyScores_reversed(items, scores, i, acc) ==
    [raised |-> FALSE, items |-> items,
     out |-> [k \in 1..Min(Len(items), Len(scores)) |->
                to_scored_item(items[k],
                               scores[Min(Len(items), Len(scores)) + 1 - k]).item]]

\* [to_scored_item(item, score) for (item, score) in zip(items, scores)]:
\* zip stops at the shorter list.  items is the list with its members as
\* mutated so far, out the list built so far.
RECURSIVE ApplyScores(_, _, _, _)
ApplyScores(items, scores, i, acc) ==
    IF i > Min(Len(items), Len(scores)) THEN acc
    ELSE LET r == to_scored_item(items[i], scores[i])
             a == [acc EXCEPT !.items[i] = r.item]
         IN  IF r.raised THEN [a EXCEPT !.raised = TRUE]
             ELSE ApplyScores(items, scores, i + 1,
                              [a EXCEPT !.out = Append(acc.out, r.item)])

\* the number of client.post calls of one ClassifyAction.main (line 102):
\* one, or none when building the request raised before it
ClassifyPosts(items) ==
    IF \E k \in 1..Len(items) : SnippetRaises(items[k]) THEN 0 ELSE 1

\* Variant: the except branch leaves the items alone that a classifier
\* score was already applied to
ClassifyFallback_keepsScored(items) ==
    IF \E k \in 1..Len(items) : "title" \notin DOMAIN items[k]
    THEN [raised |-> TRUE, out |-> <<>>]
    ELSE [raised |-> FALSE,
          out |-> [k \in 1..Len(items) |->
                     IF "scoring_title" \in DOMAIN items[k] THEN items[k]
                     ELSE to_scored_item(items[k],
                             get_default_score(items[k], ClassificationFailed)).item]]

\* the except branch, lines 108-110, over the items as they are by then
ClassifyFallback(items) ==
    IF \E k \in 1..Len(items) : "title" \notin DOMAIN items[k]
    THEN [raised |-> TRUE, out |-> <<>>]
    ELSE [raised |-> FALSE,
          out |-> [k \in 1..Len(items) |->
                     to_scored_item(items[k],
                        get_default_score(items[k], ClassificationFailed)).item]]

\* The classifier's answer to one POST:
\*   kind "transport"  client.post raises
\*   kind "status"     raise_for_status() raises
\*   kind "body"       response.json() raises
\*   kind "json"       data is the decoded body (a dict)
ResponseRaises(response) ==
    \/ response.kind # "json"
    \/ "scores" \notin DOMAIN response.data

\* main((language, search_term, items)) given the classifier's answer
ClassifyAction_main(items, response) ==
    IF \E k \in 1..Len(items) : SnippetRaises(items[k])
    THEN ClassifyFallback(items)
    ELSE IF ResponseRaises(response)
    THEN ClassifyFallback(items)
    ELSE LET r == ApplyScores(items, response.data["scores"], 1,
                              [raised |-> FALSE, items |-> items, out |-> <<>>])
         IN  IF r.raised THEN ClassifyFallback(r.items)
             ELSE [raised |-> FALSE, out |-> r.out]

\* request_data, lines 95-98
ClassifyRequest(search_term, items) ==
    [name |-> search_term,
     snippets |-> [k \in 1..Len(items) |-> to_classify_snippet(items[k])]]

---------------------------------------------------------------------------
(* GoogleMetadata *)

\* str.lower() of a fragment
Lower(f) ==
    CASE f = "Video" -> "video"
      [] f = "PDF" -> "pdf"
      [] f = "HTTP://" -> "http://"
      [] OTHER -> f

\* needle in text.lower(), for a needle that is one fragment
ContainsLower(text, needle) == \E k \in 1..Len(text) : Lower(text[k]) = needle

\* _get_metadata_dictionary(item)
get_metadata_dictionary(item) ==
    IF /\ "pagemap" \in DOMAIN item
       /\ "metatags" \in DOMAIN item["pagemap"]
       /\ Len(item["pagemap"]["metatags"]) > 0
    THEN item["pagemap"]["metatags"][1]
    ELSE EmptyDict

\* the values of those of keys (in order) that metadata has
RECURSIVE ValuesOf(_, _)
ValuesOf(metadata, keys) ==
    IF keys = <<>> THEN <<>>
    ELSE (IF Head(keys) \in DOMAIN metadata
          THEN <<metadata[Head(keys)]>> ELSE <<>>)
         \o ValuesOf(metadata, Tail(keys))

\* _get_titles(item, metadata)
get_titles(item, metadata) ==
    <<item["title"]>> \o ValuesOf(metadata, <<"og:title", "twitter:title", "title">>)

\* _get_snippets(item, metadata)
get_snippets(item, metadata) ==
    <<item["snippet"]>> \o ValuesOf(metadata, <<"og:description", "twitter:description">>)

\* _text_extraction_possible(item, metadata)
text_extraction_possible(item, metadata) ==
    IF metadata = EmptyDict THEN TRUE
    ELSE IF "lp:paywall" \in DOMAIN metadata /\ metadata["lp:paywall"] = <<"hard">>
    THEN FALSE
    ELSE IF /\ "cxenseparse:nvl-smp-access" \in DOMAIN metadata
            /\ metadata["cxenseparse:nvl-smp-access"] = <<"subscriber">>
    THEN FALSE
    ELSE IF "og:type" \in DOMAIN metadata /\ ContainsLower(metadata["og:type"], "video")
    THEN FALSE
    ELSE TRUE

\* possible_image.lower().startswith('http')
StartsWithHttp(text) ==
    text # <<>> /\ Lower(text[1]) \in {"http://", "https://"}

\* the src of the first entry of item['pagemap'][key] when it is a usable URL
ImageOf(item, key) ==
    IF /\ key \in DOMAIN item["pagemap"]
       /\ Len(item["pagemap"][key]) > 0
       /\ "src" \in DOMAIN item["pagemap"][key][1]
       /\ StartsWithHttp(item["pagemap"][key][1]["src"])
    THEN item["pagemap"][key][1]["src"]
    ELSE None

\* _get_image(item)
get_image(item) ==
    IF "pagemap" \notin DOMAIN item THEN None
    ELSE IF ImageOf(item, "cse_thumbnail") # None THEN ImageOf(item, "cse_thumbnail")
    ELSE ImageOf(item, "cse_image")

\* parser.parse(text).isoformat(), or None when the text is no date
ParseIso(text) ==
    IF text = <<"2021-03-04">> THEN <<"2021-03-04", "T00:00:00">>
    ELSE IF text = <<"4 March 2021">> THEN <<"2021-03-04", "T00:00:00">>
    ELSE None

\* _get_date(item, metadata): the first of the date keys that parses
get_date(item, metadata) ==
    LET found == SelectSeq(
            [k \in 1..3 |->
                LET key == <<"article:published_time", "dc.date.issued",
                             "article:modified_time">>[k]
                IN  IF key \in DOMAIN metadata THEN ParseIso(metadata[key]) ELSE None],
            LAMBDA d : d # None)
    IN  IF Len(found) > 0 THEN found[1] ELSE None

\* urllib.parse.quote of a fragment: reserved characters are escaped
Quote(f) ==
    CASE f = "?" -> "%3F"
      [] f = " " -> "%20"
      [] OTHER -> f

\* _make_id(item): the link without its scheme, percent-encoded
make_id(item) ==
    LET bare == SelectSeq(item["link"], LAMBDA f : f \notin {"http://", "https://"})
    IN  [k \in 1..Len(bare) |-> Quote(bare[k])]

\* metadata['og:type'].lower() of _text_extraction_possible (line 134) is
\* reached with a value that is not a str
ExtractionPossibleRaises(metadata) ==
    /\ metadata # EmptyDict
    /\ ~("lp:paywall" \in DOMAIN metadata /\ metadata["lp:paywall"] = <<"hard">>)
    /\ ~(/\ "cxenseparse:nvl-smp-access" \in DOMAIN metadata
         /\ metadata["cxenseparse:nvl-smp-access"] = <<"subscriber">>)
    /\ "og:type" \in DOMAIN metadata
    /\ metadata["og:type"] = None

\* possible_image.lower() of _get_image is reached with a src that is not
\* a str
ImageSrcIsNone(item, key) ==
    /\ key \in DOMAIN item["pagemap"]
    /\ Len(item["pagemap"][key]) > 0
    /\ "src" \in DOMAIN item["pagemap"][key][1]
    /\ item["pagemap"][key][1]["src"] = None

ImageRaises(item) ==
    /\ "pagemap" \in DOMAIN item
    /\ \/ ImageSrcIsNone(item, "cse_thumbnail")
       \/ /\ ImageOf(item, "cse_thumbnail") = None
          /\ ImageSrcIsNone(item, "cse_image")

\* get_metadata_for_item raises: KeyError when the hit lacks one of the
\* four keys it reads, AttributeError when a helper calls a str method on
\* a value that is None (og:type, an image src, the link)
MetadataRaises(item) ==
    \/ ~({"title", "snippet", "htmlSnippet", "link"} \subseteq DOMAIN item)
    \/ ExtractionPossibleRaises(get_metadata_dictionary(item))
    \/ ImageRaises(item)
    \/ item["link"] = None

\* get_metadata_for_item(item)
get_metadata_for_item(item) ==
    LET raw_metadata == get_metadata_dictionary(item)
    IN  [title |-> item["title"],
         titles |-> get_titles(item, raw_metadata),
         snippet |-> item["snippet"],
         html_snippet |-> item["htmlSnippet"],
         snippets |-> get_snippets(item, raw_metadata),
         link |-> item["link"],
         text_extraction_possible |-> text_extraction_possible(item, raw_metadata),
         image |-> get_image(item),
         date |-> get_date(item, raw_metadata),
         id |-> make_id(item)]

---------------------------------------------------------------------------
(* The content extraction pipeline of one item *)

\* if x: for a str or None
Truthy(x) == x # None /\ x # <<>>

\* ' ... '.join(texts)
RECURSIVE Join(_)
Join(texts) ==
    IF texts = <<>> THEN <<>>
    ELSE IF Len(texts) = 1 THEN texts[1]
    ELSE texts[1] \o <<" ... ">> \o Join(Tail(texts))

\* Variant: the extracted content stays on the item
CreateTextBodyAction_main_keepsExtracted(itemMetadata) ==
    Put(itemMetadata, "text_body", itemMetadata["snippet"])

\* the try block of CreateTextBodyAction.main raises (lines 26-28)
TextBodyTryRaises(itemMetadata) ==
    \/ "snippets" \notin DOMAIN itemMetadata
    \/ \E k \in 1..Len(itemMetadata["snippets"]) : itemMetadata["snippets"][k] = None
    \/ "extracted_content" \notin DOMAIN itemMetadata

\* CreateTextBodyAction.main(itemMetadata)
CreateTextBodyAction_main(itemMetadata) ==
    IF TextBodyTryRaises(itemMetadata)
    THEN Put(Put(itemMetadata, "extracted_content", None),
             "text_body", itemMetadata["snippet"])
    ELSE LET joined == Join(itemMetadata["snippets"])
             text_body == IF Truthy(itemMetadata["extracted_content"])
                          THEN joined \o <<" ... ">> \o itemMetadata["extracted_content"]
                          ELSE joined
         IN  Put(Put(itemMetadata, "extracted_content", None), "text_body", text_body)

\* The content store (blobs) is a dict from blob name to [content_type, data].
\* fetch is what the GET of the item's link gives:
\*   [kind |-> "fail"]  the request or raise_for_status() raises
\*   [kind |-> "ok", content_type |-> ..., data |-> ...]
\* DownloadAction.main(itemMetadata): the item and the store afterwards
BlobExists(itemMetadata, blobs) == itemMetadata["id"] \in DOMAIN blobs

\* lines 41-49: the blob exists; its properties are read and nothing is
\* fetched or written
DownloadExisting(itemMetadata, blobs) ==
    [item |-> Put(itemMetadata, "downloaded_content",
                  [blob_key |-> itemMetadata["id"],
                   content_type |-> blobs[itemMetadata["id"]].content_type]),
     store |-> blobs]

\* Variant: the upload leaves a blob that is already there as it is
DownloadFetch_keepsFirst(itemMetadata, blobs, fetch) ==
    IF fetch.kind = "fail"
    THEN [item |-> Put(itemMetadata, "downloaded_content", NoneDict), store |-> blobs]
    ELSE [item |-> Put(itemMetadata, "downloaded_content",
                       [blob_key |-> itemMetadata["id"],
                        content_type |-> fetch.content_type]),
          store |-> IF BlobExists(itemMetadata, blobs) THEN blobs
                    ELSE Put(blobs, itemMetadata["id"],
                             [content_type |-> fetch.content_type, data |-> fetch.data])]

\* lines 51-75: the URL is fetched and the response uploaded under the id
\* with overwrite=True; a failure gives downloaded_content = None
DownloadFetch(itemMetadata, blobs, fetch) ==
    IF fetch.kind = "fail"
    THEN [item |-> Put(itemMetadata, "downloaded_content", NoneDict), store |-> blobs]
    ELSE [item |-> Put(itemMetadata, "downloaded_content",
                       [blob_key |-> itemMetadata["id"],
                        content_type |-> fetch.content_type]),
          store |-> Put(blobs, itemMetadata["id"],
                        [content_type |-> fetch.content_type, data |-> fetch.data])]

\* DownloadAction.main(itemMetadata) when nothing else touches the store
\* between its check and its upload

DownloadAction_main(itemMetadata, blobs, fetch) ==
    IF BlobExists(itemMetadata, blobs)
    THEN DownloadExisting(itemMetadata, blobs)
    ELSE DownloadFetch(itemMetadata, blobs, fetch)

\* extract is what the text extraction library gives for the blob's bytes:
\*   [kind |-> "fail"]  it raises
\*   [kind |-> "ok", text |-> ...]
\* PdfTextExtractionAction.main(itemMetadata)
PdfTextExtractionAction_main(itemMetadata, blobs, extract) ==
    IF /\ itemMetadata["downloaded_content"]["blob_key"] \in DOMAIN blobs
       /\ extract.kind = "ok"
    THEN Put(itemMetadata, "extracted_content", extract.text)
    ELSE Put(itemMetadata, "extracted_content", None)

\* HtmlTextExtractionAction.main(itemMetadata): the extracted text, or an
\* absent extracted content when the extractor fails
HtmlTextExtractionAction_main(itemMetadata, blobs, extract) ==
    IF /\ itemMetadata["downloaded_content"]["blob_key"] \in DOMAIN blobs
       /\ extract.kind = "ok"
    THEN Put(itemMetadata, "extracted_content", extract.text)
    ELSE Put(itemMetadata, "extracted_content", None)

\* OrchestrateTextExtraction.orchestrator_function for one search result:
\* [raised, item, store]; raised when the metadata cannot be built or when
\* the content type of the download is not a str (line 47); calls are the
\* activities it called, in order
OrchestrateTextExtraction(item_result, blobs, fetch, extract) ==
    IF MetadataRaises(item_result)
    THEN [raised |-> TRUE, item |-> EmptyDict, store |-> blobs, calls |-> <<>>]
    ELSE
    LET item_metadata == get_metadata_for_item(item_result)
        possible == item_metadata["text_extraction_possible"]
        d == IF possible
             THEN DownloadAction_main(item_metadata, blobs, fetch)
             ELSE [item |-> Put(item_metadata, "downloaded_content", NoneDict),
                   store |-> blobs]
        downloads == IF possible THEN <<"DownloadAction">> ELSE <<>>
    IN  IF d.item["downloaded_content"] = NoneDict
        THEN [raised |-> FALSE, store |-> d.store,
              item |-> CreateTextBodyAction_main(
                           Put(d.item, "extracted_content", None)),
              calls |-> downloads \o <<"CreateTextBodyAction">>]
        ELSE IF d.item["downloaded_content"]["content_type"] = None
        THEN [raised |-> TRUE, item |-> EmptyDict, store |-> d.store,
              calls |-> downloads]
        ELSE IF ContainsLower(d.item["downloaded_content"]["content_type"], "pdf")
        THEN [raised |-> FALSE, store |-> d.store,
              item |-> CreateTextBodyAction_main(
                           PdfTextExtractionAction_main(d.item, d.store, extract)),
              calls |-> downloads \o <<"PdfTextExtractionAction", "CreateTextBodyAction">>]
        ELSE [raised |-> FALSE, store |-> d.store,
              item |-> CreateTextBodyAction_main(
                           HtmlTextExtractionAction_main(d.item, d.store, extract)),
              calls |-> downloads \o <<"HtmlTextExtractionAction", "CreateTextBodyAction">>]

---------------------------------------------------------------------------
(* SearchAction *)

\* lines 43-46
SearchStart == [page |-> 1, nextIndex |-> 1, has_more_pages |-> TRUE,
                all_results |-> <<>>]

\* The search engine's answer to one GET:
\*   kind "transport"  client.get raises
\*   kind "status"     raise_for_status() raises
\*   kind "body"       response.json() raises
\*   kind "json"       content is the decoded body
SearchPageRaises(response) == response.kind # "json"

\* 'queries' in response_content and 'nextPage' in response_content['queries']
HasNextPage(response_content) ==
    /\ "queries" \in DOMAIN response_content
    /\ "nextPage" \in DOMAIN response_content["queries"]

\* one pass of the while body without an exception (lines 50-62)
SearchPage(st, response) ==
    LET response_content == response.content
    IN  IF HasNextPage(response_content)
        THEN [st EXCEPT !.page = st.page + 1,
                        !.all_results = Append(st.all_results, response_content),
                        !.has_more_pages = TRUE,
                        !.nextIndex =
                            response_content["queries"]["nextPage"][1]["startIndex"]]
        ELSE [st EXCEPT !.page = st.page + 1,
                        !.all_results = Append(st.all_results, response_content),
                        !.has_more_pages = FALSE]

\* the while condition, line 49
SearchContinues(st, search_depth) == st.has_more_pages /\ st.page <= search_depth

\* result['items'] of line 70 raises KeyError for a page without items
SearchReturnRaises(all_results) ==
    \E k \in 1..Len(all_results) : "items" \notin DOMAIN all_results[k]

\* line 70: [item for result in all_results for item in result['items']]
SearchReturnValue(all_results) ==
    Flatten([k \in 1..Len(all_results) |-> all_results[k]["items"]])

\* Variant: a failed page ends the pagination and the hits of the pages
\* fetched before it are returned
SearchFailure_keepsPages(all_results) ==
    [pc |-> "extract",
     search_results |-> SearchReturnValue(
         SelectSeq(all_results, LAMBDA r : "items" \in DOMAIN r))]

\* lines 63-68 and line 28 of OrchestrateLanguageSearch: the exception is
\* raised again, the activity fails and with it the orchestrator
SearchFailure(all_results) ==
    [pc |-> "failed", search_results |-> <<>>]

---------------------------------------------------------------------------
(* OrchestrateSearch *)

\* Variant: every selected language is searched
Searches_allSelected(selected, configured) == selected

\* line 54: the selected languages that are configured, in selection order
Searches(selected, configured) == SelectSeq(selected, LAMBDA l : l \in configured)

\* Variant: the flattened results are returned as they were joined
SortByScore_unsorted(results) == results

\* Variant: an item is put ahead of the items of equal score
RECURSIVE InsertByScore_beforeEqual(_, _)
InsertByScore_beforeEqual(sorted, x) ==
    IF sorted = <<>> THEN <<x>>
    ELSE IF Head(sorted)["score"] > x["score"]
    THEN <<Head(sorted)>> \o InsertByScore_beforeEqual(Tail(sorted), x)
    ELSE <<x>> \o sorted

\* x placed behind the last member whose score is not below x's
RECURSIVE InsertByScore(_, _)
InsertByScore(sorted, x) ==
    IF sorted = <<>> THEN <<x>>
    ELSE IF Head(sorted)["score"] >= x["score"]
    THEN <<Head(sorted)>> \o InsertByScore(Tail(sorted), x)
    ELSE <<x>> \o sorted

\* search_results.sort(key=lambda r: r['score'], reverse=True): stable
RECURSIVE SortByScore(_)
SortByScore(results) ==
    IF results = <<>> THEN <<>>
    ELSE InsertByScore(SortByScore(SubSeq(results, 1, Len(results) - 1)),
                       results[Len(results)])

---------------------------------------------------------------------------
(* The Batcher on its own: every item list and threshold within bounds *)

\* text bodies of 0, 1, 1000, 1001, 2000, 100,000 and 250,000 bytes, and a
\* missing one
BodyChoices == {<<>>, <<"a">>, <<"K">>, <<"K", "a">>, <<"E">>, <<"H">>, <<"Q">>, None}

\* the classify_batch_size (KB) that applies when none is configured
DefaultBatchKB == 300

\* the k-th item of a list handed to the Batcher
BatcherItem(k, body) ==
    [id |-> <<"id", k>>, title |-> <<"T", k>>, text_body |-> body]

BatcherInputs ==
    { [k \in 1..Len(bodies) |-> BatcherItem(k, bodies[k])] :
        bodies \in SeqUpTo(BodyChoices, MaxItems) }

\* a response without a decoded body, and no response yet
NoData == EmptyDict
NotAnswered == [kind |-> "none", data |-> NoData]

\* the variables of a part that does not run
BatcherOff ==
    bt_pc = "off" /\ bt_items = <<>> /\ bt_cfg = 0 /\ bt_out = <<>>

ClassifyOff ==
    /\ cl_pc = "off" /\ cl_items = <<>> /\ cl_request = EmptyDict
    /\ cl_response = NotAnswered /\ cl_out = <<>> /\ cl_raised = FALSE

ConfigOff ==
    /\ languages = {} /\ selected_languages = <<>> /\ depth = 0
    /\ classify_batch_size = 0

RunOff ==
    /\ ConfigOff /\ top_pc = "off" /\ top_result = <<>>
    /\ branch = <<>> /\ store = EmptyDict

PipeOff == pipe = <<>>

BatcherInit ==
    /\ bt_pc = "call"
    /\ bt_items \in BatcherInputs
    /\ bt_cfg \in (0..MaxBatchKB) \cup {DefaultBatchKB}
    /\ bt_out = <<>>
    /\ ClassifyOff
    /\ RunOff
    /\ PipeOff

BatcherCall ==
    /\ bt_pc = "call"
    /\ bt_out' = ClassifyBatchingAction_main(bt_items, bt_cfg)
    /\ bt_pc' = "done"
    /\ UNCHANGED <<bt_items, bt_cfg>>
    /\ UNCHANGED <<classifyVars, runVars, pipeVars>>

BatcherNext == BatcherCall

SpecBatcher == BatcherInit /\ [][BatcherNext]_vars

\* sum of the text_body byte sizes of a batch's members (a member without
\* a text body has none to count)
RECURSIVE BatchBytes(_)
BatchBytes(batch) ==
    IF batch = <<>> THEN 0
    ELSE (IF TextBodyRaises(Head(batch)) THEN 0
          ELSE Utf8Len(Head(batch)["text_body"])) + BatchBytes(Tail(batch))

AllButLast(batch) == SubSeq(batch, 1, Len(batch) - 1)

BatcherNoFailure == \A k \in 1..Len(bt_items) : ~TextBodyRaises(bt_items[k])

\* C1: concatenating the returned batches in order yields exactly the
\* input list, for every item list and threshold (no loss, no duplication,
\* no reordering), on the normal path and on the fallback path.
C1_FlattenIsInput ==
    bt_pc = "done" => Flatten(bt_out) = bt_items

\* C1 witness: three items split over two or more batches
C1_Witness ==
    /\ bt_pc = "done"
    /\ Len(bt_items) = 3
    /\ Len(bt_out) >= 2
    /\ Flatten(bt_out) = bt_items

\* C2: every batch closed inside the loop has a byte total, over its own
\* members only, above max_batch_bytes (the counter restarts from zero with
\* each new batch).  Every batch but the last returned one is closed inside
\* the loop.
C2_ClosedBatchOverThreshold ==
    (bt_pc = "done" /\ BatcherNoFailure) =>
        \A k \in 1..(Len(bt_out) - 1) :
            BatchBytes(bt_out[k]) > MaxBatchSize(bt_cfg)

\* C3 as stated: in every returned batch the members before the last sum to
\* at most max_batch_bytes, for every input list and threshold.
C3_OverOnlyByLastMember_AllInputs ==
    bt_pc = "done" =>
        \A k \in 1..Len(bt_out) :
            BatchBytes(AllButLast(bt_out[k])) <= MaxBatchSize(bt_cfg)

\* C3 amended: when every input item has a text body (the Batcher does not
\* take its single-batch fallback), in every returned batch the members
\* before the last sum to at most max_batch_bytes.
C3_OverOnlyByLastMember ==
    (bt_pc = "done" /\ BatcherNoFailure) =>
        \A k \in 1..Len(bt_out) :
            BatchBytes(AllButLast(bt_out[k])) <= MaxBatchSize(bt_cfg)

\* C3 witness: a returned batch of two or more members that is over the
\* threshold, on the normal path
C3_Witness ==
    /\ bt_pc = "done"
    /\ BatcherNoFailure
    /\ \E k \in 1..Len(bt_out) :
          /\ Len(bt_out[k]) >= 2
          /\ BatchBytes(bt_out[k]) > MaxBatchSize(bt_cfg)

---------------------------------------------------------------------------
(* ClassifyAction on its own: every batch and classifier answer in bounds *)

\* the k-th item of a batch, as the extraction pipeline leaves it
ClassifyItem(k, body) ==
    [id |-> <<"id", k>>, title |-> <<"T", k>>, text_body |-> body,
     link |-> <<"https://", "u", k>>, date |-> None]

ClassifyInputs ==
    { [k \in 1..Len(bodies) |-> ClassifyItem(k, bodies[k])] :
        bodies \in SeqUpTo({<<"a">>, None}, MaxBatch) }

\* score entries a classifier may send: two well-formed ones and one
\* without its severity
ScoreEntries ==
    { [score |-> 2, severity |-> 1, error |-> <<>>, title |-> <<"S1">>],
      [score |-> -1, severity |-> 0, error |-> <<"e">>, title |-> <<"S2">>],
      [score |-> 1, error |-> <<>>, title |-> <<"S3">>] }

WellFormed(entry) == {"score", "severity", "error", "title"} \subseteq DOMAIN entry


\* answers to a batch of n snippets: the failures, a body without scores,
\* and score lists of every length up to n + 1
ClassifierResponses(n) ==
    { [kind |-> k, data |-> NoData] : k \in {"transport", "status", "body"} }
    \cup { [kind |-> "json", data |-> [error |-> <<"e">>]] }
    \cup { [kind |-> "json", data |-> [scores |-> ss]] :
             ss \in SeqUpTo(ScoreEntries, n + 1) }

ClassifyInit ==
    /\ cl_pc = "call"
    /\ cl_items \in ClassifyInputs
    /\ cl_request = EmptyDict
    /\ cl_response = NotAnswered
    /\ cl_out = <<>>
    /\ cl_raised = FALSE
    /\ BatcherOff
    /\ RunOff
    /\ PipeOff

\* lines 93-103: the request is built and posted
ClassifyPost ==
    /\ cl_pc = "call"
    /\ cl_request' = ClassifyRequest(<<"name">>, cl_items)
    /\ cl_pc' = "posted"
    /\ UNCHANGED <<cl_items, cl_response, cl_out, cl_raised>>
    /\ UNCHANGED <<batcherVars, runVars, pipeVars>>

\* lines 103-110: the classifier answers and main returns
ClassifyReturn ==
    /\ cl_pc = "posted"
    /\ \E response \in ClassifierResponses(Len(cl_items)) :
         LET r == ClassifyAction_main(cl_items, response)
         IN  /\ cl_response' = response
             /\ cl_out' = r.out
             /\ cl_raised' = r.raised
    /\ cl_pc' = "done"
    /\ UNCHANGED <<cl_items, cl_request>>
    /\ UNCHANGED <<batcherVars, runVars, pipeVars>>

ClassifyNext == ClassifyPost \/ ClassifyReturn

SpecClassify == ClassifyInit /\ [][ClassifyNext]_vars

\* the fields of item that main leaves alone are those of the input item
SameItem(scored, item) ==
    \A key \in DOMAIN item : key \in DOMAIN scored /\ scored[key] = item[key]

\* scored carries the neutral fallback score of item
FallbackScored(scored, item) ==
    /\ {"score", "severity", "scoring_errors", "scoring_title"} \subseteq DOMAIN scored
    /\ scored["score"] = 0
    /\ scored["severity"] = 0
    /\ scored["scoring_errors"] = ClassificationFailed
    /\ scored["scoring_title"] = item["title"]

ClassifyScores == cl_response.data["scores"]

ClassifyAnswered == cl_pc = "done" /\ cl_response.kind = "json"
                    /\ "scores" \in DOMAIN cl_response.data

\* C4: the returned list has exactly as many scored items as the batch has
\* items, whether the call succeeds, fails or answers with a scores list of
\* another length.
C4_OneScoredItemPerItem ==
    cl_pc = "done" => (~cl_raised /\ Len(cl_out) = Len(cl_items))

\* C5: a scores list that is shorter or longer than the snippets list makes
\* the whole call a failure: every item of the batch is returned with the
\* fallback score and none keeps a classifier-supplied one.
C5_LengthMismatchIsFailure ==
    (ClassifyAnswered /\ Len(ClassifyScores) # Len(cl_items)) =>
        /\ Len(cl_out) = Len(cl_items)
        /\ \A k \in 1..Len(cl_out) : FallbackScored(cl_out[k], cl_items[k])

\* C6: after a transport error or a non-success status every item of the
\* batch is returned with score 0.0, severity 0.0, a non-empty
\* scoring_errors and its own title as scoring_title, and main does not
\* raise.
C6_FailedCallGivesFallback ==
    (cl_pc = "done" /\ cl_response.kind \in {"transport", "status"}) =>
        /\ ~cl_raised
        /\ Len(cl_out) = Len(cl_items)
        /\ \A k \in 1..Len(cl_items) :
              /\ SameItem(cl_out[k], cl_items[k])
              /\ cl_out[k]["score"] = 0
              /\ cl_out[k]["severity"] = 0
              /\ cl_out[k]["scoring_errors"] # <<>>
              /\ cl_out[k]["scoring_title"] = cl_items[k]["title"]

\* C6 witness: a two-item batch whose call ended in a non-success status
C6_Witness ==
    /\ cl_pc = "done"
    /\ cl_response.kind = "status"
    /\ Len(cl_items) = 2
    /\ Len(cl_out) = 2

\* C7: on a successful call (well-formed scores, as many as snippets) the
\* k-th item receives score, severity, error and title of the k-th score,
\* and the k-th submitted snippet is built from the k-th item.
C7_ScoresByPosition ==
    (/\ ClassifyAnswered
     /\ Len(ClassifyScores) = Len(cl_items)
     /\ \A k \in 1..Len(ClassifyScores) : WellFormed(ClassifyScores[k])) =>
        /\ Len(cl_out) = Len(cl_items)
        /\ Len(cl_request.snippets) = Len(cl_items)
        /\ \A k \in 1..Len(cl_items) :
              /\ SameItem(cl_out[k], cl_items[k])
              /\ cl_out[k]["score"] = ClassifyScores[k]["score"]
              /\ cl_out[k]["severity"] = ClassifyScores[k]["severity"]
              /\ cl_out[k]["scoring_errors"] = ClassifyScores[k]["error"]
              /\ cl_out[k]["scoring_title"] = ClassifyScores[k]["title"]
              /\ cl_request.snippets[k].title = cl_items[k]["title"]
              /\ cl_request.snippets[k].snippet = cl_items[k]["text_body"]
              /\ cl_request.snippets[k].url = cl_items[k]["link"]
              /\ cl_request.snippets[k].date = cl_items[k]["date"]

\* C7 witness: two items scored with two different well-formed scores
C7_Witness ==
    /\ ClassifyAnswered
    /\ Len(cl_items) = 2
    /\ Len(ClassifyScores) = 2
    /\ \A k \in 1..2 : WellFormed(ClassifyScores[k])
    /\ ClassifyScores[1] # ClassifyScores[2]
    /\ Len(cl_out) = 2
    /\ cl_out[1]["score"] # cl_out[2]["score"]

---------------------------------------------------------------------------
(* One run of OrchestrateSearch over a small world *)

\* A search hit as the search engine sends it
Hit(name, scheme, snippet, metatags) ==
    [title |-> <<"title of ", name>>, snippet |-> snippet, htmlSnippet |-> snippet,
     link |-> <<scheme, name>>, pagemap |-> [metatags |-> metatags]]

\* The engine's index: the hits of the result page of a language that
\* starts at an index.  Snippets of 1, 1000 and 2000 bytes, one hit behind
\* a hard paywall, one whose snippet is null.
CorpusPage(language, start) ==
    CASE language = "nb-NO" /\ start = 1 ->
           << Hit("nb1", "https://", <<"a">>, << ("og:description" :> <<"a">>) >>),
              Hit("nb2", "http://", <<"K">>, <<>>) >>
      [] language = "nb-NO" /\ start = 11 ->
           << Hit("nb3", "https://", <<"E">>, << ("lp:paywall" :> <<"hard">>) >>) >>
      [] language = "sv-SE" /\ start = 1 ->
           << Hit("sv1", "https://", None, <<>>) >>
      [] OTHER -> <<>>

\* the next start index the engine signals after the page at start
NextStart(start) == start + 10

\* what the engine may answer to the request for the page at start
SearchResponses(language, start) ==
    { [kind |-> k, content |-> EmptyDict] : k \in {"transport", "status", "body"} }
    \cup { [kind |-> "json", content |-> [kind |-> <<"customsearch#search">>]],
           [kind |-> "json", content |-> [items |-> CorpusPage(language, start)]],
           [kind |-> "json",
            content |-> [items |-> CorpusPage(language, start),
                         queries |-> [nextPage |->
                                        << [startIndex |-> NextStart(start)] >>]]] }

\* what the GET of a hit's link may give
Fetches(hit) ==
    { [kind |-> "fail", content_type |-> None, data |-> None],
      [kind |-> "ok", data |-> <<"bytes of ", hit["link"][2]>>,
       content_type |-> IF hit["link"][2] = "nb2"
                        THEN <<"application/", "pdf">>
                        ELSE <<"text/html">>] }

\* what the text extraction of a blob may give
Extractions ==
    { [kind |-> "fail", text |-> None], [kind |-> "ok", text |-> <<"K">>] }

\* The classifier of a run scores the k-th snippet of a request by its
\* position; it may also fail, or send a list that is one score short.
RunScore(k) ==
    IF k % 2 = 1
    THEN [score |-> 2, severity |-> 1, error |-> <<>>, title |-> <<"S1">>]
    ELSE [score |-> -1, severity |-> 0, error |-> <<>>, title |-> <<"S2">>]

RunResponses(n) ==
    { [kind |-> "status", data |-> NoData],
      [kind |-> "json", data |-> [scores |-> [k \in 1..n |-> RunScore(k)]]],
      [kind |-> "json", data |-> [scores |-> [k \in 1..(n - 1) |-> RunScore(k)]]] }

\* a task of task_all: not yet completed, or completed with its result
Pending == [done |-> FALSE, result |-> <<>>]
Completed(result) == [done |-> TRUE, result |-> result]

\* Variant: the join returns as soon as one task has completed
AllDone_any(tasks) == \E k \in 1..Len(tasks) : tasks[k].done

\* task_all(tasks) returns: every task has completed
AllDone(tasks) == \A k \in 1..Len(tasks) : tasks[k].done

\* Variant: the results are joined from the last task to the first
Results_reversed(tasks) == [k \in 1..Len(tasks) |-> tasks[Len(tasks) + 1 - k].result]

\* the results of task_all(tasks): in the order of the tasks list
Results(tasks) == [k \in 1..Len(tasks) |-> tasks[k].result]

\* task k completes while a task before it in the list has not
Overtakes(tasks, k) == \E e \in 1..(k - 1) : ~tasks[e].done

\* an OrchestrateLanguageSearch instance as it is started (line 26)
NewBranch(language) ==
    [language |-> language, pc |-> "search", error |-> "none",
     page |-> SearchStart.page, nextIndex |-> SearchStart.nextIndex,
     has_more_pages |-> SearchStart.has_more_pages,
     all_results |-> SearchStart.all_results,
     requests |-> <<>>, calls |-> <<"SearchAction">>,
     search_results |-> <<>>, processing_tasks |-> <<>>, batches |-> <<>>,
     scoring_tasks |-> <<>>, result |-> <<>>,
     \* history: the activities each extraction pipeline called, and the
     \* number of requests sent to the classifier for each batch
     activity_calls |-> <<>>, posts |-> <<>>,
     \* history: what the classifier answered for each batch
     responses |-> <<>>,
     \* history: a task of this branch completed while a task submitted
     \* before it was still running
     overtaken |-> FALSE]

ConfiguredChoices == {{}, {"nb-NO"}, {"nb-NO", "sv-SE"}}
SelectedChoices ==
    {<<>>, <<"sv-SE", "nb-NO">>, <<"da-DK", "nb-NO">>}

RunInit ==
    /\ languages \in ConfiguredChoices
    /\ selected_languages \in SelectedChoices
    /\ depth \in 0..MaxDepth
    /\ classify_batch_size = 1
    /\ top_pc = "start"
    /\ top_result = <<>>
    /\ branch = <<>>
    /\ store = EmptyDict
    /\ BatcherOff
    /\ ClassifyOff
    /\ PipeOff

\* Variant: the fan-out is reached without the check of lines 46-49, and an
\* empty configuration limits nothing
TopStart_noConfigCheck ==
    /\ top_pc = "start"
    /\ top_pc' = "join"
    /\ top_result' = top_result
    /\ branch' = LET searches == IF languages = {} THEN selected_languages
                                 ELSE Searches(selected_languages, languages)
                 IN  [k \in 1..Len(searches) |-> NewBranch(searches[k])]
    /\ UNCHANGED <<configVars, store, batcherVars, classifyVars, pipeVars>>

\* OrchestrateSearch lines 46-55: an empty result without any search when
\* no language is configured, otherwise one OrchestrateLanguageSearch per
\* selected language that is configured
TopStart ==
    /\ top_pc = "start"
    /\ IF languages = {}
       THEN /\ top_pc' = "done"
            /\ top_result' = <<>>
            /\ branch' = <<>>
       ELSE /\ top_pc' = "join"
            /\ top_result' = top_result
            /\ branch' = LET searches == Searches(selected_languages, languages)
                         IN  [k \in 1..Len(searches) |-> NewBranch(searches[k])]
    /\ UNCHANGED <<configVars, store, batcherVars, classifyVars, pipeVars>>

\* how the search of a branch ends: the branch goes on with the hits, or
\* fails with the exception
SearchEnded(b, st, outcome, error) ==
    [st EXCEPT !.pc = outcome.pc,
               !.error = error,
               !.search_results = outcome.search_results,
               !.processing_tasks = [k \in 1..Len(outcome.search_results) |-> Pending],
               !.activity_calls = [k \in 1..Len(outcome.search_results) |-> <<>>],
               !.calls = st.calls \o [k \in 1..Len(outcome.search_results) |->
                                        "OrchestrateTextExtraction"]]

\* SearchAction: one pass of the while loop, lines 49-68
LangSearchPage(b) ==
    /\ branch[b].pc = "search"
    /\ SearchContinues(branch[b], depth)
    /\ \E response \in SearchResponses(branch[b].language, branch[b].nextIndex) :
         LET asked == [branch[b] EXCEPT
                         !.requests = Append(branch[b].requests, branch[b].nextIndex)]
         IN  branch' = [branch EXCEPT ![b] =
                 IF SearchPageRaises(response)
                 THEN SearchEnded(b, [asked EXCEPT !.page = asked.page + 1],
                                  SearchFailure(asked.all_results), response.kind)
                 ELSE SearchPage(asked, response)]
    /\ UNCHANGED <<configVars, top_pc, top_result, store, batcherVars, classifyVars, pipeVars>>

\* SearchAction line 70 and OrchestrateLanguageSearch lines 28-29: the hits
\* are returned and one extraction pipeline is started for each
LangSearchReturn(b) ==
    /\ branch[b].pc = "search"
    /\ ~SearchContinues(branch[b], depth)
    /\ branch' = [branch EXCEPT ![b] =
            IF SearchReturnRaises(branch[b].all_results)
            THEN SearchEnded(b, branch[b], SearchFailure(branch[b].all_results), "items")
            ELSE SearchEnded(b, branch[b],
                             [pc |-> "extract",
                              search_results |-> SearchReturnValue(branch[b].all_results)],
                             "none")]
    /\ UNCHANGED <<configVars, top_pc, top_result, store, batcherVars, classifyVars, pipeVars>>

\* OrchestrateTextExtraction for the k-th hit of a branch, run to its end
LangExtract(b, k) ==
    /\ branch[b].pc = "extract"
    /\ k \in 1..Len(branch[b].processing_tasks)
    /\ ~branch[b].processing_tasks[k].done
    /\ \E fetch \in Fetches(branch[b].search_results[k]), extract \in Extractions :
         LET r == OrchestrateTextExtraction(branch[b].search_results[k], store,
                                            fetch, extract)
         IN  /\ store' = r.store
             /\ branch' = [branch EXCEPT ![b] =
                    IF r.raised
                    THEN [branch[b] EXCEPT !.pc = "failed", !.error = "pipeline"]
                    ELSE [branch[b] EXCEPT
                            !.processing_tasks[k] = Completed(r.item),
                            !.activity_calls[k] = r.calls,
                            !.overtaken = @ \/ Overtakes(branch[b].processing_tasks, k)]]
    /\ UNCHANGED <<configVars, top_pc, top_result, batcherVars, classifyVars, pipeVars>>

\* OrchestrateLanguageSearch lines 30-34: every pipeline has completed, the
\* Batcher runs and one ClassifyAction is started for each batch
LangBatch(b) ==
    /\ branch[b].pc = "extract"
    /\ AllDone(branch[b].processing_tasks)
    /\ LET batches == ClassifyBatchingAction_main(
                          Results(branch[b].processing_tasks), classify_batch_size)
       IN  branch' = [branch EXCEPT ![b] =
               [branch[b] EXCEPT
                  !.pc = "classify",
                  !.batches = batches,
                  !.scoring_tasks = [j \in 1..Len(batches) |-> Pending],
                  !.posts = [j \in 1..Len(batches) |-> 0],
                  !.responses = [j \in 1..Len(batches) |-> NotAnswered],
                  !.calls = branch[b].calls \o <<"ClassifyBatchingAction">>
                            \o [j \in 1..Len(batches) |-> "ClassifyAction"]]]
    /\ UNCHANGED <<configVars, top_pc, top_result, store, batcherVars, classifyVars, pipeVars>>

\* Variant: a classifier call that fails is made again
LangClassify_retry(b, j) ==
    /\ branch[b].pc = "classify"
    /\ j \in 1..Len(branch[b].scoring_tasks)
    /\ ~branch[b].scoring_tasks[j].done
    /\ \E response \in RunResponses(Len(branch[b].batches[j])) :
         LET r == ClassifyAction_main(branch[b].batches[j], response)
         IN  branch' = [branch EXCEPT ![b] =
                 IF response.kind # "json"
                 THEN [branch[b] EXCEPT
                         !.posts[j] = @ + ClassifyPosts(branch[b].batches[j])]
                 ELSE [branch[b] EXCEPT
                         !.scoring_tasks[j] = Completed(r.out),
                         !.posts[j] = @ + ClassifyPosts(branch[b].batches[j]),
                         !.responses[j] = response,
                         !.overtaken = @ \/ Overtakes(branch[b].scoring_tasks, j)]]
    /\ UNCHANGED <<configVars, top_pc, top_result, store, batcherVars, classifyVars, pipeVars>>

\* Variant: a failed classifier call gives the fallback score to every
\* batch of the language
LangClassify_failsLanguage(b, j) ==
    /\ branch[b].pc = "classify"
    /\ j \in 1..Len(branch[b].scoring_tasks)
    /\ ~branch[b].scoring_tasks[j].done
    /\ \E response \in RunResponses(Len(branch[b].batches[j])) :
         LET r == ClassifyAction_main(branch[b].batches[j], response)
         IN  branch' = [branch EXCEPT ![b] =
                 [branch[b] EXCEPT
                    !.scoring_tasks =
                        [i \in 1..Len(branch[b].scoring_tasks) |->
                            IF i = j THEN Completed(r.out)
                            ELSE IF response.kind = "json" \/ ~branch[b].scoring_tasks[i].done
                            THEN branch[b].scoring_tasks[i]
                            ELSE Completed(ClassifyFallback(branch[b].batches[i]).out)],
                    !.posts[j] = @ + ClassifyPosts(branch[b].batches[j]),
                    !.responses[j] = response,
                    !.overtaken = @ \/ Overtakes(branch[b].scoring_tasks, j)]]
    /\ UNCHANGED <<configVars, top_pc, top_result, store, batcherVars, classifyVars, pipeVars>>

\* ClassifyAction for the j-th batch of a branch
LangClassify(b, j) ==
    /\ branch[b].pc = "classify"
    /\ j \in 1..Len(branch[b].scoring_tasks)
    /\ ~branch[b].scoring_tasks[j].done
    /\ \E response \in RunResponses(Len(branch[b].batches[j])) :
         LET r == ClassifyAction_main(branch[b].batches[j], response)
         IN  branch' = [branch EXCEPT ![b] =
                 IF r.raised
                 THEN [branch[b] EXCEPT !.pc = "failed", !.error = "classify"]
                 ELSE [branch[b] EXCEPT
                         !.scoring_tasks[j] = Completed(r.out),
                         !.posts[j] = @ + ClassifyPosts(branch[b].batches[j]),
                         !.responses[j] = response,
                         !.overtaken = @ \/ Overtakes(branch[b].scoring_tasks, j)]]
    /\ UNCHANGED <<configVars, top_pc, top_result, store, batcherVars, classifyVars, pipeVars>>

\* OrchestrateLanguageSearch lines 35-37: every batch is scored and the
\* scored batches are flattened into the branch's result
LangReturn(b) ==
    /\ branch[b].pc = "classify"
    /\ AllDone(branch[b].scoring_tasks)
    /\ branch' = [branch EXCEPT ![b] =
            [branch[b] EXCEPT !.pc = "done",
                              !.result = Flatten(Results(branch[b].scoring_tasks))]]
    /\ UNCHANGED <<configVars, top_pc, top_result, store, batcherVars, classifyVars, pipeVars>>

\* Variant: the join waits for every branch to end and takes the results
\* of those that completed
TaskAll_isolating(branches) ==
    IF \A b \in 1..Len(branches) : branches[b].pc \in {"done", "failed"}
    THEN [state |-> "completed",
          results |-> [b \in 1..Len(branches) |-> branches[b].result]]
    ELSE [state |-> "pending", results |-> <<>>]

\* context.task_all(searches), line 55: completed with the results in the
\* order of the tasks once every task has completed, failed once a task
\* has failed
TaskAll(branches) ==
    IF \E b \in 1..Len(branches) : branches[b].pc = "failed"
    THEN [state |-> "failed", results |-> <<>>]
    ELSE IF \A b \in 1..Len(branches) : branches[b].pc = "done"
    THEN [state |-> "completed",
          results |-> [b \in 1..Len(branches) |-> branches[b].result]]
    ELSE [state |-> "pending", results |-> <<>>]

\* OrchestrateSearch lines 55-58: the joined results, flattened and sorted
TopJoin ==
    /\ top_pc = "join"
    /\ TaskAll(branch).state = "completed"
    /\ top_result' = SortByScore(Flatten(TaskAll(branch).results))
    /\ top_pc' = "done"
    /\ UNCHANGED <<configVars, branch, store, batcherVars, classifyVars, pipeVars>>

\* OrchestrateSearch line 55: the exception of a failed branch is thrown
\* at the yield and the orchestrator fails without a result
TopFail ==
    /\ top_pc = "join"
    /\ TaskAll(branch).state = "failed"
    /\ top_pc' = "failed"
    /\ UNCHANGED <<configVars, top_result, branch, store, batcherVars, classifyVars, pipeVars>>

Next ==
    \/ TopStart
    \/ \E b \in 1..Len(branch) : LangSearchPage(b)
    \/ \E b \in 1..Len(branch) : LangSearchReturn(b)
    \/ \E b \in 1..Len(branch) : \E k \in 1..Len(branch[b].processing_tasks) : LangExtract(b, k)
    \/ \E b \in 1..Len(branch) : LangBatch(b)
    \/ \E b \in 1..Len(branch) : \E j \in 1..Len(branch[b].scoring_tasks) : LangClassify(b, j)
    \/ \E b \in 1..Len(branch) : LangReturn(b)
    \/ TopJoin
    \/ TopFail

Spec == RunInit /\ [][Next]_vars

Branches == 1..Len(branch)

\* every hit the searches of the run returned, branch after branch
AllHits == Flatten([b \in Branches |-> branch[b].search_results])

\* the branch's SearchAction raised: in the GET (transport), in
\* raise_for_status (status), in response.json() (body), or at line 70 on a
\* page without 'items'
SearchFailed(b) == branch[b].error \in {"transport", "status", "body", "items"}

\* C8: no stage drops an item.  When the run completes (so every search
\* succeeded) the ranked result holds exactly one scored item for every hit
\* the searches returned, whatever failed in between.
C8_OneScoredItemPerHit ==
    top_pc = "done" =>
        /\ Len(top_result) = Len(AllHits)
        /\ \A h \in 1..Len(AllHits) :
              Cardinality({m \in 1..Len(top_result) :
                             top_result[m]["link"] = AllHits[h]["link"]}) = 1

\* C9 as stated: when the search of one language has failed, the scored
\* items of the other languages' completed branches are part of the result
\* the run returns.
C9_OtherLanguagesReturned ==
    \A b \in Branches : \A c \in Branches :
        (/\ top_pc \in {"done", "failed"}
         /\ SearchFailed(b)
         /\ branch[c].pc = "done") =>
            \A k \in 1..Len(branch[c].result) :
                \E m \in 1..Len(top_result) : top_result[m] = branch[c].result[k]

\* C9 amended: a search failure fails the branch of its own language only
\* (a branch is failed exactly when a step of its own raised), but it fails the join of the
\* top orchestrator: the run never completes and returns no result, so
\* no other language's scored items are returned.
C9_SearchFailureFailsRunOnly ==
    /\ \A c \in Branches : branch[c].pc = "failed" <=> branch[c].error # "none"
    /\ (\E b \in Branches : SearchFailed(b)) =>
            (top_pc # "done" /\ top_result = <<>>)

\* C9 witness: one branch failed in its search, another ran to completion
\* with scored items, and the run has failed
C9_Witness ==
    \E b \in Branches : \E c \in Branches :
        /\ SearchFailed(b)
        /\ branch[c].pc = "done"
        /\ Len(branch[c].result) > 0
        /\ top_pc = "failed"

\* C10: a failure on any page is not degraded.  The branch whose search
\* failed has no hits, not even those of pages fetched before the failure,
\* and has started no extraction, batching or classification; and a branch
\* that went past its search had no failed page.
C10_SearchFailurePropagates ==
    \A b \in Branches :
        /\ SearchFailed(b) =>
              /\ branch[b].pc = "failed"
              /\ branch[b].search_results = <<>>
              /\ branch[b].processing_tasks = <<>>
              /\ branch[b].batches = <<>>
              /\ branch[b].scoring_tasks = <<>>
              /\ branch[b].result = <<>>
              /\ branch[b].calls = <<"SearchAction">>
        /\ branch[b].pc \in {"extract", "classify", "done"} =>
              /\ ~SearchFailed(b)
              /\ Len(branch[b].all_results) = Len(branch[b].requests)
              /\ branch[b].search_results = SearchReturnValue(branch[b].all_results)

\* C10 witness: the second page request failed after a first page with
\* hits had been fetched
C10_Witness ==
    \E b \in Branches :
        /\ branch[b].error \in {"transport", "status", "body"}
        /\ Len(branch[b].requests) = 2
        /\ Len(branch[b].all_results) = 1
        /\ Len(branch[b].all_results[1]["items"]) > 0
        /\ branch[b].pc = "failed"

\* the results of the language branches in the order of the branches
JoinedResults == Flatten([b \in Branches |-> branch[b].result])

\* how often x occurs in a list
Occurrences(xs, x) == Cardinality({m \in 1..Len(xs) : xs[m] = x})

IsPermutation(xs, ys) ==
    /\ Len(xs) = Len(ys)
    /\ \A m \in 1..Len(xs) : Occurrences(xs, xs[m]) = Occurrences(ys, xs[m])

\* C11: the result the run returns is ordered by score descending across
\* all languages (each item's score is at least the next item's) and is a
\* permutation of the language results put one after the other.
C11_SortedByScoreDescending ==
    top_pc = "done" =>
        /\ \A m \in 1..(Len(top_result) - 1) :
              top_result[m]["score"] >= top_result[m + 1]["score"]
        /\ IsPermutation(top_result, JoinedResults)

\* C11 witness: a completed run over two languages in which an item of the
\* second language is returned ahead of an item of the first
C11_Witness ==
    /\ top_pc = "done"
    /\ Len(branch) = 2
    /\ \E m \in 1..Len(top_result) : \E n \in 1..Len(top_result) :
          /\ m < n
          /\ top_result[m]["score"] > top_result[n]["score"]
          /\ \E k \in 1..Len(branch[2].result) : branch[2].result[k] = top_result[m]
          /\ \E k \in 1..Len(branch[1].result) : branch[1].result[k] = top_result[n]

\* C12: with no language configured the run goes from its start straight
\* to its end with an empty result: no language branch exists at any time,
\* so no search is ever requested, and the join is never reached.
C12_NoLanguagesNoSearch ==
    languages = {} =>
        /\ branch = <<>>
        /\ top_result = <<>>
        /\ top_pc \in {"start", "done"}

\* C12 witness: a run with languages requested but none configured has
\* returned
C12_Witness ==
    /\ languages = {}
    /\ selected_languages # <<>>
    /\ top_pc = "done"
    /\ top_result = <<>>

\* the languages of a list
LanguagesOf(selected) == {selected[k] : k \in 1..Len(selected)}

\* C13: once the fan-out is made there is a branch exactly for the
\* languages that are both requested and configured, every page request is
\* made by one of these branches, and a requested language that is not
\* configured fails nothing.
C13_OnlyRequestedAndConfigured ==
    (top_pc # "start" /\ languages # {}) =>
        /\ {branch[b].language : b \in Branches}
               = LanguagesOf(selected_languages) \cap languages
        /\ \A b \in Branches :
              Cardinality({c \in Branches : branch[c].language = branch[b].language})
                  = Occurrences(selected_languages, branch[b].language)
        /\ (\A b \in Branches : branch[b].pc # "failed") => top_pc # "failed"

\* C13 witness: a requested language is not configured, a configured one
\* is not requested, and the run has returned the items of the one language
\* that is both
C13_Witness ==
    /\ \E l \in LanguagesOf(selected_languages) : l \notin languages
    /\ \E l \in languages : l \notin LanguagesOf(selected_languages)
    /\ top_pc = "done"
    /\ Len(top_result) > 0

---------------------------------------------------------------------------
(* OrchestrateTextExtraction on its own, activity by activity *)

\* a dict without one of its keys
Without(d, key) == [k \in (DOMAIN d) \ {key} |-> d[k]]

\* Raw hits: a plain one, one behind a hard paywall with a second snippet,
\* one whose snippet is null, a video, one behind a paywall whose snippet
\* is null, one with the subscriber access flag, a video and an article
\* behind a soft paywall, four that lack a key, one whose
\* og:type is null, one whose thumbnail src is null, one whose link is null
PlainHit == Hit("p1", "https://", <<"a">>, <<>>)

MalformedHits ==
    { Without(PlainHit, k) : k \in {"title", "snippet", "htmlSnippet", "link"} }
    \cup { Hit("p5", "https://", <<"a">>, << ("og:type" :> None) >>),
           [PlainHit EXCEPT !.pagemap = [metatags |-> <<>>,
                                         cse_thumbnail |-> << [src |-> None] >>]],
           [PlainHit EXCEPT !.link = None] }

PipeHits ==
    { PlainHit,
      Hit("p2", "https://", <<"a">>,
          << ("lp:paywall" :> <<"hard">>) @@ ("og:description" :> <<"K">>) >>),
      Hit("p3", "http://", None, <<>>),
      Hit("p4", "https://", <<"a">>, << ("og:type" :> <<"video">>) >>),
      Hit("p6", "https://", None,
          << ("lp:paywall" :> <<"hard">>) @@ ("og:description" :> <<"K">>) >>),
      Hit("p7", "https://", <<"a">>,
          << ("cxenseparse:nvl-smp-access" :> <<"subscriber">>) >>),
      Hit("p8", "https://", <<"a">>,
          << ("lp:paywall" :> <<"soft">>) @@ ("og:type" :> <<"Video">>) >>),
      Hit("p9", "https://", <<"a">>,
          << ("lp:paywall" :> <<"soft">>) @@ ("og:type" :> <<"article">>) >>) }
    \cup MalformedHits

\* what the GET of a link may give: a failure, an HTML page, a PDF
PipeFetches ==
    { [kind |-> "fail", content_type |-> None, data |-> None],
      [kind |-> "ok", content_type |-> <<"text/html">>, data |-> <<"bytes">>],
      [kind |-> "ok", content_type |-> <<"application/", "PDF">>, data |-> <<"bytes">>] }

\* the blob container before the pipelines start: empty, or holding a blob
\* for the hit, stored with or without a content type
PipeStores(hit) ==
    IF MetadataRaises(hit) THEN {EmptyDict}
    ELSE {EmptyDict}
         \cup { (make_id(hit) :> [content_type |-> ct, data |-> <<"bytes">>]) :
                    ct \in {<<"text/html">>, None} }

\* no extractor has read a blob for the instance
NotRead == <<"not read">>

\* the content type of the blob an extractor downloads for the item, as it
\* is stored when the extractor runs
BlobContentType(itemMetadata, blobs) ==
    IF itemMetadata["downloaded_content"]["blob_key"] \in DOMAIN blobs
    THEN blobs[itemMetadata["downloaded_content"]["blob_key"]].content_type
    ELSE None

\* an instance at line 37
NewPipeline(hit) ==
    [hit |-> hit, pc |-> "metadata", item |-> EmptyDict, calls |-> <<>>,
     \* history: the store and network operations of the instance's download,
     \* and the content type of the blob its extractor read
     io |-> <<>>, read |-> NotRead]

\* one instance, or two for hits of one result list: the same hit twice or
\* the hit and a plain one
PipelineInit ==
    /\ \E hit \in PipeHits :
         /\ pipe \in { <<NewPipeline(hit)>>,
                       <<NewPipeline(hit), NewPipeline(hit)>>,
                       <<NewPipeline(hit), NewPipeline(PlainHit)>> }
         /\ store \in PipeStores(hit)
    /\ ConfigOff
    /\ top_pc = "off" /\ top_result = <<>> /\ branch = <<>>
    /\ BatcherOff
    /\ ClassifyOff

PipeUnchanged == UNCHANGED <<configVars, top_pc, top_result, branch,
                             batcherVars, classifyVars>>

\* Variant: the download is started whatever text_extraction_possible says
PipeMetadata_alwaysDownload(p) ==
    /\ pipe[p].pc = "metadata"
    /\ pipe' = [pipe EXCEPT ![p] =
          IF MetadataRaises(pipe[p].hit)
          THEN [pipe[p] EXCEPT !.pc = "failed"]
          ELSE [pipe[p] EXCEPT !.pc = "download",
                               !.item = get_metadata_for_item(pipe[p].hit)]]
    /\ UNCHANGED store
    /\ PipeUnchanged

\* lines 39-43: the metadata record; the download is skipped when text
\* extraction is not possible
PipeMetadata(p) ==
    /\ pipe[p].pc = "metadata"
    /\ pipe' = [pipe EXCEPT ![p] =
          IF MetadataRaises(pipe[p].hit)
          THEN [pipe[p] EXCEPT !.pc = "failed"]
          ELSE LET item_metadata == get_metadata_for_item(pipe[p].hit)
               IN  IF item_metadata["text_extraction_possible"]
                   THEN [pipe[p] EXCEPT !.pc = "download", !.item = item_metadata]
                   ELSE [pipe[p] EXCEPT
                           !.pc = "dispatch",
                           !.item = Put(item_metadata, "downloaded_content", NoneDict)]]
    /\ UNCHANGED store
    /\ PipeUnchanged

\* line 41: DownloadAction is called; DownloadAction lines 40-49, the check
\* whether the blob exists and the return when it does
PipeDownload(p) ==
    /\ pipe[p].pc = "download"
    /\ pipe' = [pipe EXCEPT ![p] =
          IF BlobExists(pipe[p].item, store)
          THEN [pipe[p] EXCEPT !.pc = "dispatch",
                               !.item = DownloadExisting(pipe[p].item, store).item,
                               !.calls = Append(pipe[p].calls, "DownloadAction"),
                               !.io = <<"exists">>]
          ELSE [pipe[p] EXCEPT !.pc = "fetch",
                               !.calls = Append(pipe[p].calls, "DownloadAction"),
                               !.io = <<"exists">>]]
    /\ UNCHANGED store
    /\ PipeUnchanged

\* DownloadAction lines 51-75, run by an instance that found no blob: the
\* fetch and the upload, whatever the store holds by now
PipeFetch(p) ==
    /\ pipe[p].pc = "fetch"
    /\ \E fetch \in PipeFetches :
         LET d == DownloadFetch(pipe[p].item, store, fetch)
         IN  /\ store' = d.store
             /\ pipe' = [pipe EXCEPT ![p] =
                    [pipe[p] EXCEPT
                       !.pc = "dispatch", !.item = d.item,
                       !.io = pipe[p].io \o (IF fetch.kind = "fail" THEN <<"get">>
                                              ELSE <<"get", "upload_blob">>)]]
    /\ PipeUnchanged

\* lines 46-52: the extractor is chosen by the content type of the download
PipeDispatch(p) ==
    /\ pipe[p].pc = "dispatch"
    /\ \E extract \in Extractions :
         LET item == pipe[p].item
         IN  pipe' = [pipe EXCEPT ![p] =
               IF item["downloaded_content"] = NoneDict
               THEN [pipe[p] EXCEPT !.pc = "body",
                                    !.item = Put(item, "extracted_content", None)]
               ELSE IF item["downloaded_content"]["content_type"] = None
               THEN [pipe[p] EXCEPT !.pc = "failed"]
               ELSE IF ContainsLower(item["downloaded_content"]["content_type"], "pdf")
               THEN [pipe[p] EXCEPT
                       !.pc = "body",
                       !.item = PdfTextExtractionAction_main(item, store, extract),
                       !.read = BlobContentType(item, store),
                       !.calls = Append(pipe[p].calls, "PdfTextExtractionAction")]
               ELSE [pipe[p] EXCEPT
                       !.pc = "body",
                       !.item = HtmlTextExtractionAction_main(item, store, extract),
                       !.read = BlobContentType(item, store),
                       !.calls = Append(pipe[p].calls, "HtmlTextExtractionAction")]]
    /\ UNCHANGED store
    /\ PipeUnchanged

\* lines 54-56: CreateTextBodyAction and the return
PipeBody(p) ==
    /\ pipe[p].pc = "body"
    /\ pipe' = [pipe EXCEPT ![p] =
          [pipe[p] EXCEPT !.pc = "done",
                          !.item = CreateTextBodyAction_main(pipe[p].item),
                          !.calls = Append(pipe[p].calls, "CreateTextBodyAction")]]
    /\ UNCHANGED store
    /\ PipeUnchanged

PipelineNext ==
    \/ \E p \in 1..Len(pipe) : PipeMetadata(p)
    \/ \E p \in 1..Len(pipe) : PipeDownload(p)
    \/ \E p \in 1..Len(pipe) : PipeFetch(p)
    \/ \E p \in 1..Len(pipe) : PipeDispatch(p)
    \/ \E p \in 1..Len(pipe) : PipeBody(p)

SpecPipeline == PipelineInit /\ [][PipelineNext]_vars

Pipelines == 1..Len(pipe)

\* the instance has its metadata record and text extraction is not possible
ExtractionSkipped(p) ==
    /\ pipe[p].pc \in {"dispatch", "body", "done"}
    /\ ~pipe[p].item["text_extraction_possible"]

\* some entry of the item's snippets is not a str, so that the join of
\* CreateTextBodyAction line 26 raises
JoinRaises(item) == \E k \in 1..Len(item["snippets"]) : item["snippets"][k] = None

\* C14 as stated: for an item whose text_extraction_possible is false
\* neither the download nor an extractor is called, and the final item has
\* no downloaded content, no extracted content and the joined snippets as
\* its text body.
C14_SkippedItemHasJoinedSnippets ==
    \A p \in Pipelines :
        ExtractionSkipped(p) =>
            /\ \A c \in 1..Len(pipe[p].calls) : pipe[p].calls[c] = "CreateTextBodyAction"
            /\ pipe[p].item["downloaded_content"] = NoneDict
            /\ pipe[p].pc = "done" =>
                  /\ pipe[p].calls = <<"CreateTextBodyAction">>
                  /\ pipe[p].item["extracted_content"] = None
                  /\ pipe[p].item["text_body"] = Join(pipe[p].item["snippets"])

\* C14 amended: as above, but the text body is the joined snippets when
\* every entry of snippets is a str, and the primary snippet otherwise.
C14_SkippedItemBody ==
    \A p \in Pipelines :
        ExtractionSkipped(p) =>
            /\ \A c \in 1..Len(pipe[p].calls) : pipe[p].calls[c] = "CreateTextBodyAction"
            /\ pipe[p].item["downloaded_content"] = NoneDict
            /\ pipe[p].pc = "done" =>
                  /\ pipe[p].calls = <<"CreateTextBodyAction">>
                  /\ pipe[p].item["extracted_content"] = None
                  /\ pipe[p].item["text_body"] =
                        IF JoinRaises(pipe[p].item)
                        THEN pipe[p].item["snippet"]
                        ELSE Join(pipe[p].item["snippets"])

\* C14 witness: a paywalled item with two snippets has left the pipeline
\* with the two joined
C14_Witness ==
    \E p \in Pipelines :
        /\ ExtractionSkipped(p)
        /\ pipe[p].pc = "done"
        /\ Len(pipe[p].item["snippets"]) = 2
        /\ pipe[p].item["text_body"] = <<"a", " ... ", "K">>

\* C15: whatever the blob container, the fetch and the extractors do, the
\* pipeline of an item whose metadata record was built does not fail: it
\* goes on to the text body and returns the item.
C15_PipelineNeverFails ==
    \A p \in Pipelines :
        ~MetadataRaises(pipe[p].hit) => pipe[p].pc # "failed"

\* C16: every item that leaves the pipeline came out of
\* CreateTextBodyAction, has text_body set and extracted_content cleared;
\* when the assembly of the body failed, text_body is the primary snippet.
C16_BodyBuiltOnEveryPath ==
    \A p \in Pipelines :
        pipe[p].pc = "done" =>
            /\ pipe[p].calls[Len(pipe[p].calls)] = "CreateTextBodyAction"
            /\ "text_body" \in DOMAIN pipe[p].item
            /\ pipe[p].item["extracted_content"] = None
            /\ JoinRaises(pipe[p].item) =>
                  pipe[p].item["text_body"] = pipe[p].item["snippet"]

\* C16 witness: an item with extracted text whose body assembly failed has
\* left the pipeline with its primary snippet as text body, and an item
\* with extracted text has left it with the text in its body
C16_Witness ==
    /\ \E p \in Pipelines :
          /\ pipe[p].pc = "done"
          /\ JoinRaises(pipe[p].item)
          /\ \E c \in 1..Len(pipe[p].calls) : pipe[p].calls[c] = "HtmlTextExtractionAction"
          /\ pipe[p].item["text_body"] = pipe[p].item["snippet"]
    /\ \E p \in Pipelines :
          /\ pipe[p].pc = "done"
          /\ pipe[p].item["text_body"] = <<"a", " ... ", "K">>
          /\ pipe[p].item["extracted_content"] = None

---------------------------------------------------------------------------
(* Order at the joins *)

LinksOf(items) == [k \in 1..Len(items) |-> items[k]["link"]]

\* xs is ys with some members left out
RECURSIVE IsSubsequence(_, _)
IsSubsequence(xs, ys) ==
    IF xs = <<>> THEN TRUE
    ELSE IF ys = <<>> THEN FALSE
    ELSE IF Head(xs) = Head(ys) THEN IsSubsequence(Tail(xs), Tail(ys))
    ELSE IsSubsequence(xs, Tail(ys))

\* C17: the joins keep the submission order whatever the completion
\* order.  The items the Batcher gets, batch after batch, are the hits of
\* the search in their order, and the items a branch returns are in the
\* relative order of the hits of its search.
C17_JoinsKeepSubmissionOrder ==
    \A b \in Branches :
        /\ branch[b].pc \in {"classify", "done"} =>
              LinksOf(Flatten(branch[b].batches)) = LinksOf(branch[b].search_results)
        /\ branch[b].pc = "done" =>
              IsSubsequence(LinksOf(branch[b].result), LinksOf(branch[b].search_results))

\* C17 witness: a branch in which a later task completed before an earlier
\* one has returned several items
C17_Witness ==
    \E b \in Branches :
        /\ branch[b].pc = "done"
        /\ branch[b].overtaken
        /\ Len(branch[b].result) >= 2

---------------------------------------------------------------------------
(* MetadataNormalizer, pagination, and the overflow item of the Batcher *)

\* C18: get_metadata_for_item never raises: every instance that is past
\* its metadata step has a metadata record, whatever the raw hit lacks.
C18_MetadataNeverRaises ==
    \A p \in Pipelines :
        pipe[p].pc # "metadata" =>
            /\ pipe[p].item # EmptyDict
            /\ {"title", "titles", "snippet", "snippets", "link", "image", "date",
                "text_extraction_possible", "id"} \subseteq DOMAIN pipe[p].item

\* the hits of a result page; a page without 'items' has none
PageHits(response_content) ==
    IF "items" \in DOMAIN response_content THEN response_content["items"] ELSE <<>>

\* C19: the first page request has start index 1, each further request
\* has the start index the page before it signalled (so there is none
\* after a page that signals no next page), there are at most depth
\* requests, and a search none of whose requests failed returns the hits
\* of its pages, page after page.
C19_Pagination ==
    \A b \in Branches :
        LET st == branch[b]
        IN  /\ Len(st.requests) <= depth
            /\ st.requests # <<>> => st.requests[1] = 1
            /\ \A i \in 2..Len(st.requests) :
                  /\ HasNextPage(st.all_results[i - 1])
                  /\ st.requests[i] =
                        st.all_results[i - 1]["queries"]["nextPage"][1]["startIndex"]
            /\ (st.pc # "search" /\ st.error \notin {"transport", "status", "body"}) =>
                  /\ st.error # "items"
                  /\ st.search_results =
                        Flatten([i \in 1..Len(st.all_results) |-> PageHits(st.all_results[i])])

\* the Batcher's counter after the i-th item: it is never set back, so it
\* is the byte total of the first i items
CounterAfter(items, i) == BatchBytes(SubSeq(items, 1, i))

\* the positions, in the input list, of the last members of the batches
\* closed inside the loop
ClosedEnds(closed) == { Len(Flatten(SubSeq(closed, 1, j))) : j \in 1..Len(closed) }

\* C20: the batches closed inside the loop are the input in order, cut
\* exactly behind each item that takes the counter over the threshold: that
\* item is the last member of the batch it closes, never the first of the
\* next.  Two items of 100,000 and 250,000 bytes with a threshold of
\* 300,000 come back as one batch holding both.
C20_OverflowItemStaysInItsBatch ==
    bt_pc = "done" =>
        LET max_batch_size == MaxBatchSize(bt_cfg)
            closed == BatchLoop(bt_items, 1, BatchStart, max_batch_size).batches
            flat == Flatten(closed)
        IN  /\ flat = SubSeq(bt_items, 1, Len(flat))
            /\ \A i \in 1..Len(flat) :
                  (CounterAfter(bt_items, i) > max_batch_size) <=> (i \in ClosedEnds(closed))
            /\ BatcherNoFailure => SubSeq(bt_out, 1, Len(closed)) = closed
            /\ (/\ Len(bt_items) = 2
                /\ bt_items[1]["text_body"] = <<"H">>
                /\ bt_items[2]["text_body"] = <<"Q">>
                /\ bt_cfg = DefaultBatchKB) => bt_out = <<bt_items>>

\* C20 witness: the scenario of 100,000 and 250,000 bytes at 300 KB
C20_Witness ==
    /\ bt_pc = "done"
    /\ bt_cfg = DefaultBatchKB
    /\ Len(bt_items) = 2
    /\ Utf8Len(bt_items[1]["text_body"]) = 100000
    /\ Utf8Len(bt_items[2]["text_body"]) = 250000
    /\ Len(bt_out) = 1
    /\ Len(bt_out[1]) = 2

---------------------------------------------------------------------------
(* Fallback of the Batcher *)

\* C21: when an item of the input has no text body, at whatever position,
\* the Batcher returns one batch holding the whole input in input order;
\* the batches it had closed before the failure are not returned.
C21_FailureGivesOneBatch ==
    (bt_pc = "done" /\ ~BatcherNoFailure) => bt_out = <<bt_items>>

\* C21 witness: the loop had closed a batch before it met the item without
\* a text body at the last position, and one batch of all three items is
\* returned
C21_Witness ==
    /\ bt_pc = "done"
    /\ Len(bt_items) = 3
    /\ TextBodyRaises(bt_items[3])
    /\ ~TextBodyRaises(bt_items[1]) /\ ~TextBodyRaises(bt_items[2])
    /\ Len(BatchLoop(bt_items, 1, BatchStart, MaxBatchSize(bt_cfg)).batches) >= 1
    /\ bt_out = <<bt_items>>

---------------------------------------------------------------------------
(* Barriers and call counts of a language branch *)

\* how often an activity or sub-orchestration occurs in a call log
CallCount(calls, name) == Cardinality({c \in 1..Len(calls) : calls[c] = name})

\* C22: the stages of a language branch are separated by full barriers.
\* While the search runs there is no extraction pipeline; the Batcher has
\* run at most once, and when it has, every extraction pipeline of the
\* branch has completed; a classification exists only after the Batcher has
\* run; and the branch has a result only when every classification has
\* completed.
C22_StagesAreBarriers ==
    \A b \in Branches :
        LET st == branch[b]
            batched == CallCount(st.calls, "ClassifyBatchingAction")
        IN  /\ st.pc = "search" =>
                  /\ st.processing_tasks = <<>>
                  /\ CallCount(st.calls, "OrchestrateTextExtraction") = 0
            /\ batched <= 1
            /\ st.pc \in {"classify", "done"} => batched = 1
            /\ batched = 1 => \A k \in 1..Len(st.processing_tasks) :
                                  st.processing_tasks[k].done
            /\ batched = 0 => /\ st.batches = <<>>
                              /\ st.scoring_tasks = <<>>
                              /\ CallCount(st.calls, "ClassifyAction") = 0
            /\ (st.pc = "done" \/ st.result # <<>>) =>
                  /\ st.pc = "done"
                  /\ \A j \in 1..Len(st.scoring_tasks) : st.scoring_tasks[j].done

\* C22 witness: a branch with several pipelines and several batches, whose
\* tasks completed out of order, has returned
C22_Witness ==
    \E b \in Branches :
        /\ branch[b].pc = "done"
        /\ Len(branch[b].processing_tasks) >= 2
        /\ Len(branch[b].scoring_tasks) >= 2
        /\ branch[b].overtaken
        /\ branch[b].result # <<>>

\* the text extractors called in a call log
ExtractorCalls(calls) ==
    CallCount(calls, "PdfTextExtractionAction") + CallCount(calls, "HtmlTextExtractionAction")

\* C23: nothing is called twice.  In a branch the search and the Batcher
\* are called at most once, one extraction pipeline is started per hit and
\* one ClassifyAction per batch; a pipeline calls DownloadAction at most
\* once, at most one extractor once, and CreateTextBodyAction once; and
\* the classifier has received one request for a batch whose
\* classification has completed (with scores or with the fallback) and
\* none for a batch whose classification has not.
C23_NoRetries ==
    \A b \in Branches :
        LET st == branch[b]
        IN  /\ CallCount(st.calls, "SearchAction") = 1
            /\ CallCount(st.calls, "ClassifyBatchingAction") <= 1
            /\ CallCount(st.calls, "OrchestrateTextExtraction") = Len(st.search_results)
            /\ CallCount(st.calls, "ClassifyAction") = Len(st.batches)
            /\ Len(st.scoring_tasks) = Len(st.batches)
            /\ \A k \in 1..Len(st.processing_tasks) :
                  /\ CallCount(st.activity_calls[k], "DownloadAction") <= 1
                  /\ ExtractorCalls(st.activity_calls[k]) <= 1
                  /\ CallCount(st.activity_calls[k], "CreateTextBodyAction")
                        = (IF st.processing_tasks[k].done THEN 1 ELSE 0)
            /\ \A j \in 1..Len(st.scoring_tasks) :
                  st.posts[j] = (IF st.scoring_tasks[j].done THEN 1 ELSE 0)

\* C23 witness: a branch has returned after a failed download, a failed
\* classifier call answered by the fallback, and a pipeline that called
\* the download and an extractor
C23_Witness ==
    \E b \in Branches :
        /\ branch[b].pc = "done"
        /\ \E k \in 1..Len(branch[b].processing_tasks) :
              /\ branch[b].activity_calls[k] = <<"DownloadAction", "CreateTextBodyAction">>
        /\ \E k \in 1..Len(branch[b].processing_tasks) :
              /\ ExtractorCalls(branch[b].activity_calls[k]) = 1
        /\ \E j \in 1..Len(branch[b].scoring_tasks) :
              /\ branch[b].posts[j] = 1
              /\ branch[b].scoring_tasks[j].result[1]["scoring_errors"] = ClassificationFailed

\* scored carries the score fields of the classifier's score entry
ScoredBy(scored, entry) ==
    /\ {"score", "severity", "scoring_errors", "scoring_title"} \subseteq DOMAIN scored
    /\ scored["score"] = entry["score"]
    /\ scored["severity"] = entry["severity"]
    /\ scored["scoring_errors"] = entry["error"]
    /\ scored["scoring_title"] = entry["title"]

\* the scored batches of a branch whose classifier call failed
FailedBatches(b) ==
    { j \in 1..Len(branch[b].scoring_tasks) :
        branch[b].scoring_tasks[j].done /\ branch[b].responses[j].kind = "status" }

\* C24: a failed classifier call touches its own batch only.  Every item
\* of a batch whose call failed carries the fallback score, and every
\* item returned for a batch whose call was answered carries the score
\* entry that call returned for its position, whatever happened to the
\* other batches of the language and to the other languages; a branch
\* that returned, returned exactly the items of its scored batches.
C24_FailureIsolatedToBatch ==
    \A b \in Branches :
        /\ \A j \in 1..Len(branch[b].scoring_tasks) :
              LET task == branch[b].scoring_tasks[j]
                  batch == branch[b].batches[j]
                  response == branch[b].responses[j]
              IN  task.done =>
                    IF response.kind = "status"
                    THEN /\ Len(task.result) = Len(batch)
                         /\ \A k \in 1..Len(batch) : FallbackScored(task.result[k], batch[k])
                    ELSE /\ response.kind = "json"
                         /\ Len(task.result) <= Len(batch)
                         /\ Len(task.result) <= Len(response.data["scores"])
                         /\ \A k \in 1..Len(task.result) :
                               /\ SameItem(task.result[k], batch[k])
                               /\ ScoredBy(task.result[k], response.data["scores"][k])
                               /\ task.result[k]["scoring_errors"] # ClassificationFailed
        /\ branch[b].pc = "done" =>
              branch[b].result = Flatten(Results(branch[b].scoring_tasks))

\* C24 witness: the run has returned; of one language one batch failed
\* and another batch was scored, and another language was scored too
C24_Witness ==
    /\ top_pc = "done"
    /\ \E b \in Branches :
          /\ FailedBatches(b) # {}
          /\ \E j \in 1..Len(branch[b].scoring_tasks) :
                /\ j \notin FailedBatches(b)
                /\ branch[b].scoring_tasks[j].result # <<>>
          /\ \E c \in Branches \ {b} :
                /\ branch[c].pc = "done"
                /\ FailedBatches(c) = {}
                /\ branch[c].result # <<>>

\* the download result of an instance, when it has one that is present
HasDownload(p) ==
    /\ "downloaded_content" \in DOMAIN pipe[p].item
    /\ pipe[p].item["downloaded_content"] # NoneDict

\* the check of DownloadAction by instance p: nothing is written; when
\* the blob exists nothing is fetched and the result is read from the blob
C25_Check(p) ==
    LET id == pipe[p].item["id"]
    IN  /\ store' = store
        /\ pipe'[p].io = <<"exists">>
        /\ IF id \in DOMAIN store
           THEN /\ pipe'[p].pc = "dispatch"
                /\ pipe'[p].item["downloaded_content"] =
                      [blob_key |-> id, content_type |-> store[id].content_type]
           ELSE pipe'[p].pc = "fetch"

\* the act of DownloadAction by instance p: one fetch; when it succeeds
\* the blob under the id is the one this instance fetched, whatever was
\* there, and no other blob changes
C25_Act(p) ==
    LET id == pipe[p].item["id"]
        downloaded == pipe'[p].item["downloaded_content"]
    IN  /\ CallCount(pipe'[p].io, "get") = 1
        /\ \/ /\ downloaded = NoneDict
              /\ store' = store
              /\ CallCount(pipe'[p].io, "upload_blob") = 0
           \/ /\ downloaded # NoneDict
              /\ downloaded["blob_key"] = id
              /\ CallCount(pipe'[p].io, "upload_blob") = 1
              /\ DOMAIN store' = DOMAIN store \cup {id}
              /\ store'[id].content_type = downloaded["content_type"]
              /\ \A other \in DOMAIN store \ {id} : store'[other] = store[other]

\* what holds of the downloads in every state: an instance has fetched
\* and uploaded at most once, never after it found the blob; a download
\* result that is present names the item's id, and the store holds a blob
\* under that id
C25_Downloads ==
    \A p \in Pipelines :
        /\ CallCount(pipe[p].io, "exists") <= 1
        /\ CallCount(pipe[p].io, "get") <= 1
        /\ CallCount(pipe[p].io, "upload_blob") <= CallCount(pipe[p].io, "get")
        /\ HasDownload(p) =>
              /\ pipe[p].item["downloaded_content"]["blob_key"] = pipe[p].item["id"]
              /\ pipe[p].item["id"] \in DOMAIN store

\* C25: DownloadAction is check-then-act on the blob named by the item
\* id.  The check writes nothing and, when the blob exists, ends the
\* download with the stored blob's content type and without a fetch; an
\* instance that found no blob fetches once and its upload replaces
\* whatever is stored under the id by then (last writer wins); every
\* download result that is present has blob_key equal to the item id and
\* the store holds a blob under it.
C25_CheckThenAct ==
    /\ []C25_Downloads
    /\ [][\A p \in Pipelines :
            /\ (pipe[p].pc = "download" /\ pipe'[p].pc # "download") => C25_Check(p)
            /\ (pipe[p].pc = "fetch" /\ pipe'[p].pc # "fetch") => C25_Act(p)]_vars

\* C25 witness: two instances for the same id both found no blob, both
\* fetched and both uploaded; they fetched different content types and
\* the store holds one of them
C25_Witness ==
    /\ Len(pipe) = 2
    /\ \A p \in Pipelines :
          /\ pipe[p].pc = "done"
          /\ pipe[p].io = <<"exists", "get", "upload_blob">>
    /\ pipe[1].item["id"] = pipe[2].item["id"]
    /\ pipe[1].item["downloaded_content"]["content_type"]
          # pipe[2].item["downloaded_content"]["content_type"]
    /\ store[pipe[1].item["id"]].content_type
          = pipe[1].item["downloaded_content"]["content_type"]

\* the instance is past the dispatch of lines 46-52, or failed in it
Dispatched(p) ==
    \/ pipe[p].pc \in {"body", "done"}
    \/ pipe[p].pc = "failed" /\ "downloaded_content" \in DOMAIN pipe[p].item

\* C26: past the dispatch, an instance with a download result has called
\* exactly one extractor, the PDF extractor when the content type contains
\* "pdf" in any case and the HTML extractor otherwise; an instance without
\* a download result has called no extractor and its extracted_content
\* was set to None.
C26_ExtractorIffDownload ==
    \A p \in Pipelines :
        Dispatched(p) =>
            IF HasDownload(p)
            THEN /\ ExtractorCalls(pipe[p].calls) = 1
                 /\ CallCount(pipe[p].calls, "PdfTextExtractionAction") =
                       (IF ContainsLower(pipe[p].item["downloaded_content"]["content_type"],
                                         "pdf")
                        THEN 1 ELSE 0)
            ELSE /\ ExtractorCalls(pipe[p].calls) = 0
                 /\ pipe[p].item["extracted_content"] = None

\* the three marks of a source whose text cannot be extracted
MarkedUnextractable(metadata) ==
    \/ "lp:paywall" \in DOMAIN metadata /\ metadata["lp:paywall"] = <<"hard">>
    \/ /\ "cxenseparse:nvl-smp-access" \in DOMAIN metadata
       /\ metadata["cxenseparse:nvl-smp-access"] = <<"subscriber">>
    \/ /\ "og:type" \in DOMAIN metadata
       /\ metadata["og:type"] # None
       /\ ContainsLower(metadata["og:type"], "video")

\* C27: for every hit the normalizer has worked on, the flag
\* text_extraction_possible was computed, and in the record that was built
\* it is false exactly when the metadata carries a hard paywall, the
\* subscriber access flag or a video content type, and true otherwise,
\* also for a hit without metadata.
C27_ExtractionPossibleIff ==
    \A p \in Pipelines :
        pipe[p].pc # "metadata" =>
            LET metadata == get_metadata_dictionary(pipe[p].hit)
            IN  /\ ~ExtractionPossibleRaises(metadata)
                /\ pipe[p].item # EmptyDict =>
                      pipe[p].item["text_extraction_possible"]
                         = ~MarkedUnextractable(metadata)

\* the scored item carries the fallback score of lines 108-110
IsFallback(scored) ==
    scored["score"] = 0 /\ scored["scoring_errors"] = ClassificationFailed

\* C28: in the ranked output of a completed run every item of a batch
\* whose classifier call failed is present, and no fallback-scored item
\* stands before an item the classifier scored.
C28_FallbackSortsLast ==
    top_pc = "done" =>
        /\ \A b \in Branches : \A j \in FailedBatches(b) :
              \A k \in 1..Len(branch[b].batches[j]) :
                 \E m \in 1..Len(top_result) :
                    /\ SameItem(top_result[m], branch[b].batches[j][k])
                    /\ IsFallback(top_result[m])
        /\ \A m \in 1..Len(top_result) : \A n \in 1..Len(top_result) :
              (m < n /\ IsFallback(top_result[m])) => IsFallback(top_result[n])

\* applying the answer fails part-way: a score entry that is paired with
\* an item lacks a field
AppliedPartWay ==
    /\ ClassifyAnswered
    /\ \E k \in 1..Min(Len(cl_items), Len(ClassifyScores)) :
          ~WellFormed(ClassifyScores[k])

\* C29: scoring of a batch is all-or-nothing.  When main has returned,
\* either every returned item carries the score entry the classifier gave
\* for its position, or every item of the batch is returned with the
\* fallback score; the second is the case whenever applying the answer
\* failed part-way, also for the items before the malformed entry.
C29_AllOrNothing ==
    (cl_pc = "done" /\ ~cl_raised) =>
        /\ \/ /\ ClassifyAnswered
              /\ Len(cl_out) <= Len(ClassifyScores)
              /\ \A k \in 1..Len(cl_out) :
                    /\ WellFormed(ClassifyScores[k])
                    /\ ScoredBy(cl_out[k], ClassifyScores[k])
           \/ /\ Len(cl_out) = Len(cl_items)
              /\ \A k \in 1..Len(cl_out) : FallbackScored(cl_out[k], cl_items[k])
        /\ AppliedPartWay =>
              /\ Len(cl_out) = Len(cl_items)
              /\ \A k \in 1..Len(cl_out) : FallbackScored(cl_out[k], cl_items[k])

\* C29 witness: the first score entry was applied to the first item, the
\* second entry lacks a field, and both items came back with the fallback
C29_Witness ==
    /\ ClassifyAnswered
    /\ ~cl_raised
    /\ Len(cl_items) >= 2
    /\ Len(ClassifyScores) >= 2
    /\ WellFormed(ClassifyScores[1])
    /\ ~WellFormed(ClassifyScores[2])
    /\ FallbackScored(cl_out[1], cl_items[1])
    /\ FallbackScored(cl_out[2], cl_items[2])

\* the place of a returned item in the joined language results
DiscoveryIndex(item) ==
    CHOOSE i \in 1..Len(JoinedResults) : JoinedResults[i] = item

\* C30: the ranking is stable.  The language branches stand in the order
\* of the requested-language list, and two items of equal score are
\* returned in the order in which they stand in the language results put
\* one after the other: by language, and within a language by its result
\* list.
C30_RankingIsStable ==
    top_pc = "done" =>
        /\ [b \in Branches |-> branch[b].language]
              = Searches(selected_languages, languages)
        /\ \A m \in 1..Len(top_result) : \A n \in 1..Len(top_result) :
              (m < n /\ top_result[m]["score"] = top_result[n]["score"]) =>
                  DiscoveryIndex(top_result[m]) < DiscoveryIndex(top_result[n])

\* C30 witness: a completed run over two languages in which the sort
\* moved an item of the second language ahead of one of the first, and
\* two items of equal score, one of each language, stand in language order
C30_Witness ==
    /\ top_pc = "done"
    /\ Len(branch) = 2
    /\ top_result # JoinedResults
    /\ \E m \in 1..Len(top_result) : \E n \in 1..Len(top_result) :
          /\ m < n
          /\ top_result[m]["score"] = top_result[n]["score"]
          /\ \E k \in 1..Len(branch[1].result) : branch[1].result[k] = top_result[m]
          /\ \E k \in 1..Len(branch[2].result) : branch[2].result[k] = top_result[n]

\* C31: the content type in an item's downloaded_content, by which its
\* extractor was chosen, is the content type of the blob that extractor
\* read, whatever other instances for the same id fetched and uploaded in
\* between.
C31_ExtractorReadsRecordedType ==
    \A p \in Pipelines :
        (pipe[p].pc = "body" /\ ExtractorCalls(pipe[p].calls) = 1) =>
            pipe[p].read = pipe[p].item["downloaded_content"]["content_type"]

=============================================================================
